---------------------------- MODULE Spec2Model ----------------------------
(***************************************************************************)
(* State-machine model of the PSoC 4 capacitive liquid-level firmware:     *)
(* main() of main.c (start-up, scan polling, calibration save, level       *)
(* pipeline) and the UART interface of interface.c (rendering, command     *)
(* intake, sample sequence, emulated-EEPROM calibration record).           *)
(*                                                                         *)
(* The main loop is followed position by position (pc): "main" is the      *)
(* body of the for(;;) of main() up to the level computation, "render",    *)
(* "rx" and "sample" are the three parts of display_cur_liquid_level().    *)
(* C arrays are functions over 0..n-1.  Characters are their ASCII codes.  *)
(***************************************************************************)
EXTENDS Integers, Sequences, FiniteSets, TLC

VARIABLES
    pc,                 \* position of main(): boot, main, render, rx, sample, halted
    initStatus,         \* em_eeprom_status of main(): result of Cy_Em_EEPROM_Init
    writeStatus,        \* em_eeprom_status of store_calibration(): result of the last write
    eeprom,             \* bytes of the emulated EEPROM record area (flash)
    scanBusy,           \* Cy_CapSense_IsBusy(): a scan is in progress
    sensorRaw, sensorDiff, sensorEmptyOffset, sensorProcessed,
    sensorActiveCount, levelMm, levelPercent,
    cal_flag, uartTxMode, storeSampleFlag, resetSampleFlag,
    bufferIndex, rxBuffer,   \* statics of receive_uart_cmd()
    sampleIndex,             \* static of display_next_level_val()
    rxFifo,             \* bytes waiting in the UART RX FIFO
    rxLine,             \* bytes taken from the FIFO since the last line terminator
    rxTyped,            \* the line the user typed last, terminator(s) included
    uartOut,            \* what the last step transmitted on the UART
    uartText,           \* the level fields (percent, height) of that output, as text
    savedOffsets,       \* the offsets handed to the last write, if it succeeded
    printArgs           \* arguments of a display function called on its own

vars == <<pc, initStatus, writeStatus, eeprom, scanBusy,
          sensorRaw, sensorDiff, sensorEmptyOffset, sensorProcessed,
          sensorActiveCount, levelMm, levelPercent,
          cal_flag, uartTxMode, storeSampleFlag, resetSampleFlag,
          bufferIndex, rxBuffer, sampleIndex, rxFifo, rxLine, rxTyped, uartOut,
          uartText, savedOffsets, printArgs>>

\* Everything the firmware itself owns (all but what the user has typed).
progVars == <<pc, initStatus, writeStatus, eeprom, scanBusy,
              sensorRaw, sensorDiff, sensorEmptyOffset, sensorProcessed,
              sensorActiveCount, levelMm, levelPercent,
              cal_flag, uartTxMode, storeSampleFlag, resetSampleFlag,
              bufferIndex, rxBuffer, sampleIndex, uartOut, uartText>>

----------------------------------------------------------------------------
(* Program constants *)

NUMSENSORS == 12
NUM_SAMPLES == 20
LEVELMM_MAX == 153
LOGICAL_EM_EEPROM_SIZE == 32
LOGICAL_EM_EEPROM_START == 0
RX_BUFFER_SIZE == 32
SIZEOF_INT32 == 4
SIZEOF_INT16 == 2

UART_NONE == 0
UART_BASIC == 1
UART_CSVINIT == 2
UART_CSV == 3

CY_EM_EEPROM_SUCCESS == "CY_EM_EEPROM_SUCCESS"
CY_EM_EEPROM_ERROR == "CY_EM_EEPROM_WRITE_FAIL"
EepromStatuses == {CY_EM_EEPROM_SUCCESS, CY_EM_EEPROM_ERROR}
NoStatus == "not called"

SENSORHEIGHT == (LEVELMM_MAX * 256) \div (NUMSENSORS - 1)
sensorHeight == SENSORHEIGHT

Slots == 0 .. (NUMSENSORS - 1)

ScaleTable == <<464, 256, 256, 256, 256, 256, 256, 256, 256, 256, 256, 448>>
sensorScale == [i \in Slots |-> ScaleTable[i + 1]]

LimitTable == <<900, 550, 480, 480, 500, 450, 440, 450, 450, 400, 400, 550>>
sensorLimits == [i \in Slots |-> LimitTable[i + 1]]

AxisTable == <<-5, 0, 10, 20, 30, 40, 50, 60, 70, 80, 90, 100, 110, 120, 130,
               140, 150, 153, 160, 0>>
arrayAxisLabel == [k \in 0 .. (NUM_SAMPLES - 1) |-> AxisTable[k + 1]]

CR == 13
LF == 10
CharZero == 48

StrCal == <<99, 97, 108>>
StrStop == <<115, 116, 111, 112>>
StrCsv == <<99, 115, 118>>
StrBasic == <<98, 97, 115, 105, 99>>
StrEmpty == <<>>
StrReset == <<114, 101, 115, 101, 116>>

----------------------------------------------------------------------------
(* Bounds of the model *)

\* Longest line (characters before the terminator) the user types.
MaxLineLen == 33

\* Memory modelled from the start of rxBuffer: the 32 bytes of the array and
\* the bytes that follow it, which an index of 32 or more reaches.  A write
\* there is recorded in these cells; which object of the program the linker
\* placed there is not followed further.
RxMemLen == IF MaxLineLen + 1 > RX_BUFFER_SIZE THEN MaxLineLen + 1 ELSE RX_BUFFER_SIZE

\* Bytes of the EEPROM record area that are modelled: room for NUMSENSORS
\* values of the width of sensorEmptyOffset.
StoreBytes == NUMSENSORS * SIZEOF_INT32


\* Cases of one raw scan: dry count of an uncovered sensor, added count of a
\* submerged one, and the numbers of sensors (from the bottom) under liquid.
DryCounts == {1200, 40000}
WetCounts == {700}
RawLevels == {0, 5, 12}

RawPattern(k, dry, wet) == [i \in Slots |-> dry + (IF i < k THEN wet ELSE 0)]
RawVectors == {RawPattern(k, d, w) : k \in RawLevels, d \in DryCounts, w \in WetCounts}

\* Raw counts over the whole 16-bit range: neighbours at both ends and
\* around a scale step, and values in between.
SweepCounts == {0, 1, 2, 3, 4, 255, 256, 257, 449, 450, 1200, 1201, 20000,
                36000, 40000, 65534, 65535}
SweepRaw == {[i \in Slots |-> v] : v \in SweepCounts}

\* The one scan result used where the protocol, not the level, is examined.
SteadyRaw == {RawPattern(5, 1200, 700)}

\* Number of bytes a failing EEPROM write may have committed.
WritePrefixes == {0, 14, 32}

----------------------------------------------------------------------------
(* Integer helpers of the C code.  Raw counts are 16-bit, so every int32  *)
(* expression of the pipeline stays far inside the int32 range.            *)

Pow2(n) == IF n = 0 THEN 1 ELSE 2 ^ n

\* v >> n for a non-negative int32.
ShiftRight(v, n) == v \div Pow2(n)

ToUint8(v) == v % 256
ToUint16(v) == v % 65536

ZeroSlots == [i \in Slots |-> 0]

----------------------------------------------------------------------------
(* Level pipeline, main.c *)

\* sensorDiff[i] -= sensorEmptyOffset[i], without the floor at zero.
SubtractOffsetNoFloor(d, off) == d - off

\* sensorDiff[i] -= sensorEmptyOffset[i]; if (sensorDiff[i] < 0) sensorDiff[i] = 0;
SubtractOffset(d, off) ==
    LET r == d - off
    IN  IF r < 0 THEN 0 ELSE r

\* sensorProcessed[i] = (sensorDiff[i] * sensorScale[i]) >> 8; the diff is >= 0.
ProcessedWrapped(d, i) == ShiftRight(d * sensorScale[i], 8) % 65536
Processed(d, i) == ShiftRight(d * sensorScale[i], 8)

\* sensorProcessed[i] > sensorLimits[i]/2
Submerged(p, i) == p > (sensorLimits[i] \div 2)

\* Every sensor counted as a middle sensor.
SensorWeightAllTwo(i) == 2

\* First and last sensor count 1, the middle sensors 2.
SensorWeight(i) == IF (i = 0) \/ (i = NUMSENSORS - 1) THEN 1 ELSE 2

RECURSIVE CountFrom(_, _, _)
\* The loop of main.c:247-270 from slot i on, acc being sensorActiveCount.
CountFrom(proc, i, acc) ==
    IF i >= NUMSENSORS THEN acc
    ELSE CountFrom(proc, i + 1,
                   IF Submerged(proc[i], i) THEN ToUint8(acc + SensorWeight(i)) ELSE acc)

\* The loop without the reset of sensorActiveCount before it.
ActiveCountCarried(proc) == CountFrom(proc, 0, sensorActiveCount)

\* sensorActiveCount = 0; then the loop.
ActiveCount(proc) == CountFrom(proc, 0, 0)

\* levelMm = sensorActiveCount * (sensorHeight >> 1), never rounded to full.
LevelMmNoSnap(count) == count * ShiftRight(sensorHeight, 1)

\* levelMm = sensorActiveCount * (sensorHeight >> 1), rounded to full near the top.
LevelMm(count) ==
    LET mm == count * ShiftRight(sensorHeight, 1)
    IN  IF mm > (LEVELMM_MAX * 256) - ShiftRight(sensorHeight, 2)
        THEN LEVELMM_MAX * 256
        ELSE mm

\* The percentage with the division done before the multiplication.
LevelPercentDivFirst(mm) == (mm \div LEVELMM_MAX) * 100

\* levelPercent = (levelMm * 100) / LEVELMM_MAX; levelMm is >= 0.
LevelPercent(mm) == (mm * 100) \div LEVELMM_MAX

\* The offsets the subtraction loop sees when it runs before store_calibration().
OffsetAtSubtractStale(before, after) == before

\* The offsets the subtraction loop of main.c:247 reads: store_calibration()
\* (main.c:237-241) has already run, so they are the ones it left.
OffsetAtSubtract(before, after) == after

----------------------------------------------------------------------------
(* Scan results used where the level computation is examined: sensors a to *)
(* b-1 under liquid, which gives every value of sensorActiveCount, and all *)
(* sensors exactly at, or one count below, the count that submerges them.  *)

SpanRaw(a, b, wet) == [i \in Slots |-> IF (a <= i) /\ (i < b) THEN wet ELSE 0]

\* Smallest diff d with ((d * sensorScale[i]) >> 8) > sensorLimits[i]/2.
WetFloor(i) ==
    (((sensorLimits[i] \div 2) + 1) * 256 + sensorScale[i] - 1) \div sensorScale[i]

EdgeRaw(delta) == [i \in Slots |-> WetFloor(i) - delta]

LevelRaw ==
    {SpanRaw(a, b, w) : a \in 0 .. NUMSENSORS, b \in 0 .. NUMSENSORS, w \in WetCounts}
        \cup {EdgeRaw(0), EdgeRaw(1)}

----------------------------------------------------------------------------
(* Calibration record, interface.c store_calibration() and main.c:190-194 *)

\* for(i = 0; i < NUMSENSORS; i++) sensorEmptyOffset[i] = sensorDiff[i];
CalibrationOffsetsRelative(diff) ==
    [i \in Slots |-> SubtractOffset(diff[i], sensorEmptyOffset[i])]
CalibrationOffsets(diff) == [i \in Slots |-> diff[i]]

\* Byte k (0 = least significant) of an int32 in memory (little endian, two's
\* complement: \div rounds down).
Int32Byte(v, k) == (v \div Pow2(8 * k)) % 256

\* The bytes of the int32 array sensorEmptyOffset, as the write reads them.
OffsetBytes(off) ==
    [b \in 0 .. (StoreBytes - 1) |-> Int32Byte(off[b \div SIZEOF_INT32], b % SIZEOF_INT32)]

\* Cy_Em_EEPROM_Write(addr, data, size): size bytes of data land at addr.
EepromWrite(store, addr, data, size) ==
    [b \in DOMAIN store |->
        IF (b >= addr) /\ (b < addr + size) THEN data[b - addr] ELSE store[b]]

\* ((volatile int16_t *)eepromEmptyOffset)[index]: a plain read of the flash
\* array, which returns no status.  The logical record is taken to start at
\* the first byte of the array.
ReadInt16(store, index) ==
    LET u == store[SIZEOF_INT16 * index] + 256 * store[SIZEOF_INT16 * index + 1]
    IN  IF u >= 32768 THEN u - 65536 ELSE u

\* The loop of main.c:191-194.
LoadOffsets(store) == [i \in Slots |-> ReadInt16(store, i)]

\* The int32 stored for slot i in a record of NUMSENSORS int32 values at offset 0.
StoredInt32(store, i) ==
    LET b == [k \in 0 .. 3 |-> store[SIZEOF_INT32 * i + k]]
        top == IF b[3] >= 128 THEN b[3] - 256 ELSE b[3]
    IN  b[0] + 256 * b[1] + 65536 * b[2] + 16777216 * top

StoredRecord(store) == [i \in Slots |-> StoredInt32(store, i)]

\* A calibration that is stored whether or not it was requested.
OffsetsAlwaysStored(requested, offsets, diff) == CalibrationOffsets(diff)

\* if(cal_flag == TRUE) { ... store_calibration(); }: the offsets after
\* main.c:237-241, diff being sensorDiff as filled from the raw counts.
OffsetsAfterCal(requested, offsets, diff) ==
    IF requested THEN CalibrationOffsets(diff) ELSE offsets

ErasedStore == [b \in 0 .. (StoreBytes - 1) |-> 0]

\* handle_error() that returns to its caller whatever the status.
HandleErrorReturns(status, message) == FALSE

\* handle_error() that halts only when it has no message to print.
HandleErrorNullOnly(status, message) == (status # CY_EM_EEPROM_SUCCESS) /\ (message = "")

\* handle_error(status, message): TRUE when it never returns (while(1u)).
HandleError(status, message) == status # CY_EM_EEPROM_SUCCESS

----------------------------------------------------------------------------
(* UART input: the lines a user types, terminator included *)

\* "CAL", "cal " and a line of MaxLineLen letters x.
StrCalUpper == <<67, 65, 76>>
StrCalSpace == <<99, 97, 108, 32>>
StrLong == [j \in 1 .. MaxLineLen |-> 120]

InputLines ==
    { Append(StrCal, CR), Append(StrStop, CR), Append(StrCsv, CR),
      Append(StrBasic, CR), Append(StrReset, CR), <<CR>>, <<LF>>,
      Append(StrCalUpper, CR), Append(StrCalSpace, CR), Append(StrLong, CR) }

\* The lines used where the calibration record, not the protocol, is examined.
CalLines == { Append(StrCal, CR) }

\* "csv" and "cal" as a terminal sends them that ends a line with CR LF.
StrCsvCrLf == StrCsv \o <<CR, LF>>
StrCalCrLf == StrCal \o <<CR, LF>>
CrLfLines == { StrCsvCrLf, StrCalCrLf }

----------------------------------------------------------------------------
(* C strings in the memory that starts at rxBuffer (cell j+1 is rxBuffer[j]) *)

\* strlen(): number of bytes before the first NUL.
StrLen(mem) ==
    CHOOSE n \in 0 .. (Len(mem) - 1) :
        (mem[n + 1] = 0) /\ (\A j \in 1 .. n : mem[j] # 0)

CString(mem) == SubSeq(mem, 1, StrLen(mem))

\* A memset that clears nothing.
MemsetNone(mem, n) == mem

\* memset(mem, '\0', n)
MemsetZero(mem, n) == [j \in 1 .. Len(mem) |-> IF j <= n THEN 0 ELSE mem[j]]

\* mem[index] = value
PutByte(mem, index, value) == [mem EXCEPT ![index + 1] = value]

ZeroMem == [j \in 1 .. RxMemLen |-> 0]

ToLower(c) == IF (c >= 65) /\ (c <= 90) THEN c + 32 ELSE c

\* A comparison that ignores the case of letters.
StrEqualNoCase(a, b) ==
    (Len(a) = Len(b)) /\ (\A j \in 1 .. Len(a) : ToLower(a[j]) = ToLower(b[j]))

\* strcmp(a, b) == 0
StrEqual(a, b) == a = b

\* The branch of the if/else-if chain of receive_uart_cmd() a line takes.
CommandOf(line) ==
    IF StrEqual(StrCal, line) THEN "cal"
    ELSE IF StrEqual(StrStop, line) THEN "stop"
    ELSE IF StrEqual(StrCsv, line) THEN "csv"
    ELSE IF StrEqual(StrBasic, line) THEN "basic"
    ELSE IF StrEqual(StrEmpty, line) THEN "enter"
    ELSE IF StrEqual(StrReset, line) THEN "reset"
    ELSE "error"

\* What each branch assigns.
CmdCalFlag(cmd, flag) == IF cmd = "cal" THEN TRUE ELSE flag

CmdTxMode(cmd, mode) ==
    CASE cmd = "stop" -> UART_NONE
      [] cmd = "csv" -> UART_CSVINIT
      [] cmd = "basic" -> UART_BASIC
      [] cmd = "enter" -> UART_NONE
      [] cmd = "reset" -> UART_NONE
      [] OTHER -> mode

CmdStoreFlag(cmd, flag) == IF cmd = "enter" THEN TRUE ELSE flag

CmdResetFlag(cmd, flag) == IF cmd = "reset" THEN TRUE ELSE flag

CmdOutput(cmd) == IF cmd = "error" THEN <<<<"Command Error", 0>>>> ELSE <<>>

\* if(read_data > '0'): the byte is echoed and stored in the line buffer.
Accepted(byte) == byte > CharZero

IsTerminator(byte) == (byte = CR) \/ (byte = LF)

----------------------------------------------------------------------------
(* Decimal output, interface.c display_decimal_val() and                   *)
(* display_decimal_fixed_val().  A text is a sequence of ASCII codes.      *)

INT32_MIN == (-2147483647) - 1
INT32_MAX == 2147483647

CharMinus == 45
CharPoint == 46

\* const int32_t decimal[] (interface.c:128); decimal[i] is DecimalTable[i + 1].
DecimalTable == <<1000000000, 100000000, 10000000, 1000000, 100000, 10000,
                  1000, 100, 10, 1>>

\* if(leading_zeros > 10) leading_zeros = 10;
ClampLeadingZeros(leading_zeros) == IF leading_zeros > 10 THEN 10 ELSE leading_zeros

\* number *= -1 for a negative int32.  For INT32_MIN the product overflows,
\* which the C standard leaves undefined: the value either wraps back to
\* INT32_MIN or, on a saturating target, stops at INT32_MAX.
Negated(number) == IF number = INT32_MIN THEN {INT32_MIN, INT32_MAX} ELSE {-number}

RECURSIVE DigitsFrom(_, _, _, _, _)
\* The loop of interface.c:142-158 from index i on: digit counts how often
\* decimal[i] can be subtracted; it is sent once a digit was non-zero, at the
\* ones digit, and inside the forced leading zeros.
DigitsFrom(i, number, zero_flag, leading_zeros, out) ==
    IF i > 9 THEN out
    ELSE LET dec == DecimalTable[i + 1]
             ran == number >= dec
             digit == IF ran THEN number \div dec ELSE 0
             rest == IF ran THEN number % dec ELSE number
             flag == zero_flag \/ ran
             shown == flag \/ (i = 9) \/ (i >= 10 - leading_zeros)
         IN  DigitsFrom(i + 1, rest, flag, leading_zeros,
                        IF shown THEN Append(out, digit + 48) ELSE out)

\* The texts display_decimal_val(number, leading_zeros) can transmit.
DecimalValTexts(number, leading_zeros) ==
    LET lz == ClampLeadingZeros(leading_zeros)
    IN  IF number < 0
        THEN {<<CharMinus>> \o DigitsFrom(0, m, FALSE, lz, <<>>) : m \in Negated(number)}
        ELSE {DigitsFrom(0, number, FALSE, lz, <<>>)}

\* The text it transmits for a number above INT32_MIN.
DecimalValText(number, leading_zeros) ==
    CHOOSE t \in DecimalValTexts(number, leading_zeros) : TRUE

\* if(fixed_shift > 31) fixed_shift = 31;  if(num_decimal > 9) num_decimal = 9;
ClampShift(fixed_shift) == IF fixed_shift > 31 THEN 31 ELSE fixed_shift
ClampDecimals(num_decimal) == IF num_decimal > 9 THEN 9 ELSE num_decimal

\* number >> fixed_shift for an int32 (arithmetic shift), fixed_shift <= 31.
ArithShift(number, shift) ==
    IF shift = 31 THEN (IF number < 0 THEN -1 ELSE 0) ELSE number \div Pow2(shift)

\* A uint32 as its two 16-bit halves <<high, low>>; an int32 converts to
\* uint32 by its two's complement bits.
Halves(number) == <<(number \div 65536) % 65536, number % 65536>>

\* Number of one bits of 0xFFFFFFFF >> (31 - fixed_shift).
MaskWidth(shift) == 32 - (31 - shift)

\* h & (a mask of the low bits bits)
MaskHalves(h, bits) ==
    IF bits >= 32 THEN h
    ELSE IF bits > 16 THEN <<h[1] % Pow2(bits - 16), h[2]>>
    ELSE <<0, h[2] % Pow2(bits)>>

\* (h * 10) modulo 2^32
TimesTen(h) ==
    LET low == h[2] * 10
    IN  <<(h[1] * 10 + (low \div 65536)) % 65536, low % 65536>>

RECURSIVE TimesPowerOfTen(_, _)
\* The unsigned product with dec_digits = 10^n, modulo 2^32 (interface.c:431).
TimesPowerOfTen(h, n) == IF n = 0 THEN h ELSE TimesPowerOfTen(TimesTen(h), n - 1)

\* h >> shift as a number; the callers' values stay below 2^31.
ShiftHalves(h, shift) ==
    IF shift >= 16 THEN h[1] \div Pow2(shift - 16)
    ELSE h[1] * Pow2(16 - shift) + (h[2] \div Pow2(shift))

\* decimal_num of interface.c:431.
FractionValue(number, shift, decimals) ==
    ShiftHalves(TimesPowerOfTen(MaskHalves(Halves(number), MaskWidth(shift)), decimals),
                shift)

\* The texts display_decimal_fixed_val(number, fixed_shift, num_decimal) can
\* transmit: whole part, and with num_decimal > 0 a point and the fraction.
DecimalFixedValTexts(number, fixed_shift, num_decimal) ==
    LET shift == ClampShift(fixed_shift)
        decimals == ClampDecimals(num_decimal)
        whole == DecimalValTexts(ArithShift(number, shift), 0)
    IN  IF decimals > 0
        THEN {w \o <<CharPoint>> \o f :
                 w \in whole,
                 f \in DecimalValTexts(FractionValue(number, shift, decimals), decimals)}
        ELSE whole

DecimalFixedValText(number, fixed_shift, num_decimal) ==
    CHOOSE t \in DecimalFixedValTexts(number, fixed_shift, num_decimal) : TRUE

\* One level value as the BASIC line prints it (interface.c:250-258): whole
\* part, point, ((v & 0xFF) * 10) >> 8.  The level values are never negative.
BasicValText(v) ==
    DecimalValText(ShiftRight(v, 8), 0) \o <<CharPoint>>
        \o DecimalValText(ShiftRight((v % 256) * 10, 8), 0)

\* The level fields (percent, height) of the BASIC line, and of a CSV data
\* row or sample row (interface.c:297-300, 478-481).
BasicLevelText(percent, mm) == <<BasicValText(percent), BasicValText(mm)>>
FixedLevelText(percent, mm) ==
    <<DecimalFixedValText(percent, 8, 1), DecimalFixedValText(mm, 8, 1)>>

----------------------------------------------------------------------------
(* Initial state: the static initialisers of main.c and interface.c *)

InitialStores == {ErasedStore}

Init ==
    /\ pc = "boot"
    /\ initStatus = NoStatus
    /\ writeStatus = NoStatus
    /\ eeprom \in InitialStores
    /\ scanBusy = FALSE
    /\ sensorRaw = ZeroSlots
    /\ sensorDiff = ZeroSlots
    /\ sensorEmptyOffset = ZeroSlots
    /\ sensorProcessed = ZeroSlots
    /\ sensorActiveCount = 0
    /\ levelMm = 0
    /\ levelPercent = 0
    /\ cal_flag = FALSE
    /\ uartTxMode = UART_BASIC
    /\ storeSampleFlag = FALSE
    /\ resetSampleFlag = FALSE
    /\ bufferIndex = 0
    /\ rxBuffer = ZeroMem
    /\ sampleIndex = 0
    /\ rxFifo = <<>>
    /\ rxLine = <<>>
    /\ rxTyped = <<>>
    /\ uartOut = <<>>
    /\ uartText = <<>>
    /\ savedOffsets = <<>>
    /\ printArgs = <<>>

----------------------------------------------------------------------------
(* main(): start-up, main.c:150-205 *)

pipelineVars == <<sensorRaw, sensorDiff, sensorProcessed, sensorActiveCount,
                  levelMm, levelPercent>>
protocolVars == <<cal_flag, uartTxMode, storeSampleFlag, resetSampleFlag,
                  bufferIndex, rxBuffer, sampleIndex>>

MsgInitError == "Emulated EEPROM Initialization Error"
MsgWriteError == "Emulated EEPROM Write failed"

BootOutput == << <<"Banner", 0>>, <<"Commands", 0>>, <<"EmptyCal", 0>> >>

\* Banner, command list and calibration values are printed, the EEPROM is
\* initialised, the offsets are read from flash and the first scan is started.
Startup(status) ==
    /\ pc = "boot"
    /\ initStatus' = status
    /\ IF HandleError(status, MsgInitError)
       THEN /\ pc' = "halted"
            /\ uartOut' = Append(BootOutput, <<MsgInitError, 0>>)
            /\ UNCHANGED <<sensorEmptyOffset, scanBusy>>
       ELSE /\ pc' = "main"
            /\ uartOut' = BootOutput
            /\ sensorEmptyOffset' = LoadOffsets(eeprom)
            /\ scanBusy' = TRUE
    /\ uartText' = <<>>
    /\ UNCHANGED <<writeStatus, eeprom, rxFifo, rxLine, rxTyped, savedOffsets, printArgs>>
    /\ UNCHANGED pipelineVars
    /\ UNCHANGED protocolVars

----------------------------------------------------------------------------
(* Environment *)

\* The CAPSENSE interrupt handler finishes the scan in progress.  Interrupts
\* are disabled once handle_error() halts.
ScanCompletes ==
    /\ pc # "halted"
    /\ scanBusy = TRUE
    /\ scanBusy' = FALSE
    /\ UNCHANGED <<pc, initStatus, writeStatus, eeprom, sensorEmptyOffset,
                   rxFifo, rxLine, rxTyped, uartOut, uartText, savedOffsets,
                   printArgs>>
    /\ UNCHANGED pipelineVars
    /\ UNCHANGED protocolVars

\* Reset or power cycle: RAM returns to its initialisers, flash keeps its
\* contents, main() starts again.
Restart ==
    /\ pc # "boot"
    /\ pc' = "boot"
    /\ initStatus' = NoStatus
    /\ writeStatus' = NoStatus
    /\ scanBusy' = FALSE
    /\ sensorRaw' = ZeroSlots
    /\ sensorDiff' = ZeroSlots
    /\ sensorEmptyOffset' = ZeroSlots
    /\ sensorProcessed' = ZeroSlots
    /\ sensorActiveCount' = 0
    /\ levelMm' = 0
    /\ levelPercent' = 0
    /\ cal_flag' = FALSE
    /\ uartTxMode' = UART_BASIC
    /\ storeSampleFlag' = FALSE
    /\ resetSampleFlag' = FALSE
    /\ bufferIndex' = 0
    /\ rxBuffer' = ZeroMem
    /\ sampleIndex' = 0
    /\ rxFifo' = <<>>
    /\ rxLine' = <<>>
    /\ rxTyped' = <<>>
    /\ uartOut' = <<>>
    /\ uartText' = <<>>
    /\ UNCHANGED <<eeprom, savedOffsets, printArgs>>

\* The user types a line; its bytes wait in the RX FIFO of the enabled UART.
\* Nothing reads the FIFO before start-up or after a halt.
UserTypes(line) ==
    /\ pc \notin {"boot", "halted"}
    /\ rxFifo = <<>>
    /\ rxFifo' = line
    /\ rxTyped' = line
    /\ UNCHANGED <<pc, initStatus, writeStatus, eeprom, scanBusy,
                   sensorEmptyOffset, rxLine, uartOut, uartText, savedOffsets,
                   printArgs>>
    /\ UNCHANGED pipelineVars
    /\ UNCHANGED protocolVars

----------------------------------------------------------------------------
(* main(): one pass of the for(;;) up to the call of                        *)
(* display_cur_liquid_level(), main.c:207-286                               *)

\* CY_CAPSENSE_NOT_BUSY == Cy_CapSense_IsBusy(&cy_capsense_context)
ScanCompleteAlways(busy) == TRUE
ScanComplete(busy) == busy = FALSE

\* The scan is still running: only the level is recomputed (main.c:273-286).
MainBusy ==
    /\ pc = "main"
    /\ ~ScanComplete(scanBusy)
    /\ levelMm' = LevelMm(sensorActiveCount)
    /\ levelPercent' = LevelPercent(LevelMm(sensorActiveCount))
    /\ pc' = "render"
    /\ uartOut' = <<>>
    /\ UNCHANGED <<initStatus, writeStatus, eeprom, scanBusy, sensorEmptyOffset,
                   sensorRaw, sensorDiff, sensorProcessed, sensorActiveCount,
                   rxFifo, rxLine, rxTyped, savedOffsets, printArgs>>
    /\ uartText' = <<>>
    /\ UNCHANGED protocolVars

\* The part of the pass after store_calibration() (or without it): offsets
\* are removed, values normalised, submerged sensors counted, level computed.
Pipeline(rawv, offsets) ==
    LET diff == [i \in Slots |-> SubtractOffset(rawv[i], offsets[i])]
        proc == [i \in Slots |-> Processed(diff[i], i)]
        count == ActiveCount(proc)
    IN  /\ sensorDiff' = diff
        /\ sensorProcessed' = proc
        /\ sensorActiveCount' = count
        /\ levelMm' = LevelMm(count)
        /\ levelPercent' = LevelPercent(LevelMm(count))
        /\ pc' = "render"

\* The scan is complete and no calibration is requested: raw counts are read,
\* the next scan is started and the pipeline runs.
MainScanDone(rawv) ==
    /\ pc = "main"
    /\ ScanComplete(scanBusy)
    /\ cal_flag = FALSE
    /\ sensorRaw' = rawv
    /\ scanBusy' = TRUE
    /\ sensorEmptyOffset' = OffsetsAfterCal(cal_flag, sensorEmptyOffset, rawv)
    /\ Pipeline(rawv, OffsetAtSubtract(sensorEmptyOffset, sensorEmptyOffset'))
    /\ uartOut' = <<>>
    /\ uartText' = <<>>
    /\ UNCHANGED <<initStatus, writeStatus, eeprom, rxFifo, rxLine, rxTyped,
                   savedOffsets, printArgs>>
    /\ UNCHANGED protocolVars

\* cal_flag once the request is taken up (main.c:239).
CalFlagKept(flag) == flag
CalFlagAfterSave(flag) == FALSE

\* The scan is complete and a calibration is requested: as above, with
\* store_calibration() called between the start of the next scan and the
\* pipeline.  status is what Cy_Em_EEPROM_Write returns; a failing write has
\* committed the first prefix bytes.
MainScanDoneCal(rawv, status, prefix) ==
    LET newOffsets == OffsetsAfterCal(cal_flag, sensorEmptyOffset, rawv)
        data == OffsetBytes(sensorEmptyOffset')
        size == IF status = CY_EM_EEPROM_SUCCESS THEN LOGICAL_EM_EEPROM_SIZE ELSE prefix
    IN  /\ pc = "main"
        /\ ScanComplete(scanBusy)
        /\ cal_flag = TRUE
        /\ sensorRaw' = rawv
        /\ scanBusy' = TRUE
        /\ cal_flag' = CalFlagAfterSave(cal_flag)
        /\ sensorEmptyOffset' = newOffsets
        /\ eeprom' = EepromWrite(eeprom, LOGICAL_EM_EEPROM_START, data, size)
        /\ writeStatus' = status
        /\ IF HandleError(status, MsgWriteError)
           THEN /\ pc' = "halted"
                /\ sensorDiff' = rawv
                /\ uartOut' = << <<"EmptyCal", 0>>, <<MsgWriteError, 0>> >>
                /\ UNCHANGED <<sensorProcessed, sensorActiveCount, levelMm, levelPercent>>
           ELSE /\ Pipeline(rawv, OffsetAtSubtract(sensorEmptyOffset, sensorEmptyOffset'))
                /\ uartOut' = << <<"EmptyCal", 0>> >>
        /\ savedOffsets' = IF status = CY_EM_EEPROM_SUCCESS THEN newOffsets ELSE <<>>
        /\ uartText' = <<>>
        /\ UNCHANGED <<initStatus, rxFifo, rxLine, rxTyped, printArgs>>
        /\ UNCHANGED <<uartTxMode, storeSampleFlag, resetSampleFlag,
                       bufferIndex, rxBuffer, sampleIndex>>

----------------------------------------------------------------------------
(* display_cur_liquid_level(), interface.c:242-311 *)

\* The line each mode transmits: level line, CSV header, CSV data row, nothing.
RenderOutput(mode) ==
    CASE mode = UART_BASIC -> << <<"Basic", 0>> >>
      [] mode = UART_CSVINIT -> << <<"CsvHeader", 0>> >>
      [] mode = UART_CSV -> << <<"CsvRow", 0>> >>
      [] OTHER -> <<>>

\* The level fields of that line: the BASIC line and the CSV data row carry
\* percent and height.
RenderText(mode, percent, mm) ==
    CASE mode = UART_BASIC -> BasicLevelText(percent, mm)
      [] mode = UART_CSV -> FixedLevelText(percent, mm)
      [] OTHER -> <<>>

\* A render that never leaves UART_CSVINIT.
RenderModeStays(mode) == mode

\* uartTxMode = UART_CSV; after the header (interface.c:281).
RenderMode(mode) == IF mode = UART_CSVINIT THEN UART_CSV ELSE mode

\* The periodic line of the current mode (interface.c:246-304).
Render ==
    /\ pc = "render"
    /\ pc' = "rx"
    /\ uartOut' = RenderOutput(uartTxMode)
    /\ uartText' = RenderText(uartTxMode, levelPercent, levelMm)
    /\ uartTxMode' = RenderMode(uartTxMode)
    /\ UNCHANGED <<initStatus, writeStatus, eeprom, scanBusy, sensorEmptyOffset,
                   rxFifo, rxLine, rxTyped, savedOffsets, printArgs>>
    /\ UNCHANGED pipelineVars
    /\ UNCHANGED <<cal_flag, storeSampleFlag, resetSampleFlag,
                   bufferIndex, rxBuffer, sampleIndex>>

\* The RX FIFO after read_data = Cy_SCB_UART_Get(CYBSP_UART_HW): one byte
\* has been taken.
FifoAfterGetAll(fifo) == <<>>
FifoAfterGet(fifo) == Tail(fifo)

\* receive_uart_cmd(), interface.c:325-386: at most one byte is taken.
ReceiveUartCmd ==
    /\ pc = "rx"
    /\ pc' = "sample"
    /\ IF rxFifo = <<>>
       THEN /\ uartOut' = <<>>
            /\ UNCHANGED <<rxFifo, rxLine>>
            /\ UNCHANGED protocolVars
       ELSE LET read_data == Head(rxFifo)
                stored == Accepted(read_data)
                buf1 == IF stored THEN PutByte(rxBuffer, bufferIndex, read_data)
                        ELSE rxBuffer
                idx1 == IF stored THEN ToUint16(bufferIndex + 1) ELSE bufferIndex
                echo == IF stored THEN << <<"Echo", read_data>> >> ELSE <<>>
                buf2 == PutByte(buf1, idx1, 0)
                cmd == CommandOf(CString(buf2))
            IN  /\ rxFifo' = FifoAfterGet(rxFifo)
                /\ IF IsTerminator(read_data)
                   THEN /\ cal_flag' = CmdCalFlag(cmd, cal_flag)
                        /\ uartTxMode' = CmdTxMode(cmd, uartTxMode)
                        /\ storeSampleFlag' = CmdStoreFlag(cmd, storeSampleFlag)
                        /\ resetSampleFlag' = CmdResetFlag(cmd, resetSampleFlag)
                        /\ uartOut' = echo \o CmdOutput(cmd)
                        /\ bufferIndex' = 0
                        /\ rxBuffer' = MemsetZero(buf2, StrLen(buf2))
                        /\ rxLine' = <<>>
                   ELSE /\ bufferIndex' = idx1
                        /\ rxBuffer' = buf1
                        /\ uartOut' = echo
                        /\ rxLine' = Append(rxLine, read_data)
                        /\ UNCHANGED <<cal_flag, uartTxMode, storeSampleFlag,
                                       resetSampleFlag>>
                /\ UNCHANGED sampleIndex
    /\ uartText' = <<>>
    /\ UNCHANGED <<initStatus, writeStatus, eeprom, scanBusy, sensorEmptyOffset,
                   rxTyped, savedOffsets, printArgs>>
    /\ UNCHANGED pipelineVars

\* sampleIndex += 1 that starts again at 0 after the last entry.
NextSampleIndexWraps(index) == ToUint16(index + 1) % NUM_SAMPLES

\* sampleIndex += 1, limited to the last entry of arrayAxisLabel.
NextSampleIndex(index) ==
    IF ToUint16(index + 1) >= NUM_SAMPLES THEN NUM_SAMPLES - 1 ELSE ToUint16(index + 1)

\* A reset that leaves sampleIndex where it is.
ResetSampleIndexKeeps(doReset, index) == index

\* if(resetSampleFlag == TRUE) { sampleIndex = 0; ... }
ResetSampleIndex(doReset, index) == IF doReset THEN 0 ELSE index

\* The label of a sample row: display_decimal_val(arrayAxisLabel[sampleIndex], 0).
RowLabelAfter(index) == arrayAxisLabel[NextSampleIndex(index)]
RowLabel(index) == arrayAxisLabel[index]

\* storeSampleFlag when display_next_level_val() returns: cleared after a
\* stored sample (interface.c:492) and after a reset (interface.c:502).
StoreFlagAfterResetOnly(store, reset) == IF reset THEN FALSE ELSE store
StoreFlagAfter(store, reset) == IF store \/ reset THEN FALSE ELSE store

\* resetSampleFlag when display_next_level_val() returns (interface.c:501).
ResetFlagAfter(reset) == IF reset THEN FALSE ELSE reset

\* display_next_level_val(), interface.c:449-504.
DisplayNextLevelVal ==
    LET doStore == storeSampleFlag = TRUE
        header == IF doStore /\ (sampleIndex = 0)
                  THEN << <<"SampleHeader", 0>> >> ELSE <<>>
        row == IF doStore
               THEN << <<"SampleRow", RowLabel(sampleIndex)>> >> ELSE <<>>
        index1 == IF doStore THEN NextSampleIndex(sampleIndex) ELSE sampleIndex
        doReset == resetSampleFlag = TRUE
        notice == IF doReset THEN << <<"Reset Test Level", 0>> >> ELSE <<>>
    IN  /\ pc = "sample"
        /\ pc' = "main"
        /\ uartTxMode' = IF doStore THEN UART_NONE ELSE uartTxMode
        /\ sampleIndex' = ResetSampleIndex(doReset, index1)
        /\ storeSampleFlag' = StoreFlagAfter(doStore, doReset)
        /\ resetSampleFlag' = ResetFlagAfter(doReset)
        /\ uartOut' = header \o row \o notice
        /\ uartText' = IF doStore THEN FixedLevelText(levelPercent, levelMm) ELSE <<>>
        /\ UNCHANGED <<initStatus, writeStatus, eeprom, scanBusy, sensorEmptyOffset,
                       rxFifo, rxLine, rxTyped, cal_flag, bufferIndex, rxBuffer,
                       savedOffsets, printArgs>>
        /\ UNCHANGED pipelineVars

----------------------------------------------------------------------------
(* The display functions called on their own, with arguments of our choice *)

PrintNumbers == {0, 5, -5, 9, 10, 123, -123, 40000, 1000000000, INT32_MAX,
                 -INT32_MAX, INT32_MIN}
PrintLeadingZeros == {0, 1, 5, 10, 12}

\* 24.8 values: fractions .0, .5, just below 1, and the same above an odd
\* and an even whole part; two negative values.
FixedNumbers == {0, 128, 255, 256, 384, 511, 512, 640, 3560, 25600, 39168, -1, -384}
FixedShifts == {8, 31, 40}
FixedDecimals == {0, 1, 2, 3, 9, 12}

\* Everything a call of a display function leaves alone.
callerVars == <<pc, initStatus, writeStatus, eeprom, scanBusy,
                sensorRaw, sensorDiff, sensorEmptyOffset, sensorProcessed,
                sensorActiveCount, levelMm, levelPercent,
                cal_flag, uartTxMode, storeSampleFlag, resetSampleFlag,
                bufferIndex, rxBuffer, sampleIndex, rxFifo, rxLine, rxTyped,
                uartOut, savedOffsets>>

\* display_decimal_val(number, leading_zeros) transmits text.
CallDisplayDecimalVal(number, leading_zeros, text) ==
    /\ pc = "boot"
    /\ text \in DecimalValTexts(number, leading_zeros)
    /\ printArgs' = <<"display_decimal_val", number, leading_zeros>>
    /\ uartText' = <<text>>
    /\ UNCHANGED callerVars

\* display_decimal_fixed_val(number, fixed_shift, num_decimal) transmits text.
CallDisplayDecimalFixedVal(number, fixed_shift, num_decimal, text) ==
    /\ pc = "boot"
    /\ text \in DecimalFixedValTexts(number, fixed_shift, num_decimal)
    /\ printArgs' = <<"display_decimal_fixed_val", number, fixed_shift, num_decimal>>
    /\ uartText' = <<text>>
    /\ UNCHANGED callerVars

----------------------------------------------------------------------------
(* Specification *)

\* The firmware under the full command protocol and a steady sensor reading.
Next ==
    \/ \E status \in EepromStatuses : Startup(status)
    \/ ScanCompletes
    \/ \E line \in InputLines : UserTypes(line)
    \/ MainBusy
    \/ \E rawv \in SteadyRaw : MainScanDone(rawv)
    \/ \E rawv \in SteadyRaw, status \in EepromStatuses, prefix \in WritePrefixes :
          MainScanDoneCal(rawv, status, prefix)
    \/ Render
    \/ ReceiveUartCmd
    \/ DisplayNextLevelVal

Spec == Init /\ [][Next]_vars

\* The firmware under varying sensor readings, calibration requests and
\* restarts.
NextCal ==
    \/ \E status \in EepromStatuses : Startup(status)
    \/ ScanCompletes
    \/ Restart
    \/ \E line \in CalLines : UserTypes(line)
    \/ MainBusy
    \/ \E rawv \in RawVectors : MainScanDone(rawv)
    \/ \E rawv \in RawVectors, status \in EepromStatuses, prefix \in WritePrefixes :
          MainScanDoneCal(rawv, status, prefix)
    \/ Render
    \/ ReceiveUartCmd
    \/ DisplayNextLevelVal

SpecCal == Init /\ [][NextCal]_vars

\* The firmware under command lines that end with CR LF.
NextCrLf ==
    \/ \E status \in EepromStatuses : Startup(status)
    \/ ScanCompletes
    \/ \E line \in CrLfLines : UserTypes(line)
    \/ MainBusy
    \/ \E rawv \in SteadyRaw : MainScanDone(rawv)
    \/ \E rawv \in SteadyRaw, status \in EepromStatuses, prefix \in WritePrefixes :
          MainScanDoneCal(rawv, status, prefix)
    \/ Render
    \/ ReceiveUartCmd
    \/ DisplayNextLevelVal

SpecCrLf == Init /\ [][NextCrLf]_vars

\* The firmware with no input, under every pattern of submerged sensors.
NextLevel ==
    \/ \E status \in EepromStatuses : Startup(status)
    \/ ScanCompletes
    \/ MainBusy
    \/ \E rawv \in LevelRaw : MainScanDone(rawv)
    \/ Render
    \/ ReceiveUartCmd
    \/ DisplayNextLevelVal

SpecLevel == Init /\ [][NextLevel]_vars

\* The firmware under calibration requests, with a CPU that keeps running
\* and a sensor block that completes every scan it was given.
FirmwareStep ==
    \/ \E status \in EepromStatuses : Startup(status)
    \/ MainBusy
    \/ \E rawv \in SteadyRaw : MainScanDone(rawv)
    \/ \E rawv \in SteadyRaw, status \in EepromStatuses, prefix \in WritePrefixes :
          MainScanDoneCal(rawv, status, prefix)
    \/ Render
    \/ ReceiveUartCmd
    \/ DisplayNextLevelVal

NextLive ==
    \/ FirmwareStep
    \/ ScanCompletes
    \/ \E line \in CalLines : UserTypes(line)

SpecLive == Init /\ [][NextLive]_vars /\ WF_vars(FirmwareStep) /\ WF_vars(ScanCompletes)

\* The firmware with no input and a zero baseline, under raw counts from
\* the whole 16-bit range.
NextSweep ==
    \/ \E status \in EepromStatuses : Startup(status)
    \/ ScanCompletes
    \/ MainBusy
    \/ \E rawv \in SweepRaw : MainScanDone(rawv)
    \/ Render
    \/ ReceiveUartCmd
    \/ DisplayNextLevelVal

SpecSweep == Init /\ [][NextSweep]_vars

\* The two display functions under arguments from the sets above.
NextPrint ==
    \/ \E number \in PrintNumbers, leading_zeros \in PrintLeadingZeros :
          \E text \in DecimalValTexts(number, leading_zeros) :
              CallDisplayDecimalVal(number, leading_zeros, text)
    \/ \E number \in FixedNumbers, fixed_shift \in FixedShifts,
          num_decimal \in FixedDecimals :
          \E text \in DecimalFixedValTexts(number, fixed_shift, num_decimal) :
              CallDisplayDecimalFixedVal(number, fixed_shift, num_decimal, text)

SpecPrint == Init /\ [][NextPrint]_vars

----------------------------------------------------------------------------
(* Properties *)

LoopPositions == {"main", "render", "rx", "sample"}

Emitted(out, kind) == \E k \in 1 .. Len(out) : out[k][1] = kind

\* max(0, v)
FloorAtZero(v) == IF v > 0 THEN v ELSE 0

\* A pass of the main loop that finds the scan complete and reaches the
\* call of display_cur_liquid_level().
CycleCompletes == (pc = "main") /\ (scanBusy = FALSE) /\ (pc' = "render")

\* C1: after every completed pipeline cycle diff[i] = max(0, raw[i] -
\* baseline[i]) for every slot, and no diff is negative in any state.
C1_DiffIsFlooredDifference ==
    /\ [](\A i \in Slots : sensorDiff[i] >= 0)
    /\ [][CycleCompletes =>
            \A i \in Slots :
                sensorDiff'[i] = FloorAtZero(sensorRaw'[i] - sensorEmptyOffset'[i])]_vars

\* C1 witness: a cycle has just ended in which slot i read below its baseline
\* and was floored, and slot j read above its baseline.
C1_Witness ==
    /\ pc = "render"
    /\ sensorRaw # ZeroSlots
    /\ \E i \in Slots : (sensorRaw[i] < sensorEmptyOffset[i]) /\ (sensorDiff[i] = 0)

\* C2: in a cycle with a requested calibration save and a completed scan the
\* save precedes the recomputation: at the end of the cycle the baseline is
\* the value just saved (this cycle's raw counts) and diff, processed,
\* activeCount, heightMm and percent are computed against it.
C2_SaveBeforeRecompute ==
    [][(CycleCompletes /\ cal_flag = TRUE) =>
          /\ \A i \in Slots : sensorEmptyOffset'[i] = sensorRaw'[i]
          /\ \A i \in Slots :
                sensorDiff'[i] = FloorAtZero(sensorRaw'[i] - sensorEmptyOffset'[i])
          /\ \A i \in Slots :
                sensorProcessed'[i] = (sensorDiff'[i] * sensorScale[i]) \div 256
          /\ sensorActiveCount' = ActiveCount(sensorProcessed')
          /\ levelMm' = LevelMm(sensorActiveCount')
          /\ levelPercent' = LevelPercent(levelMm')]_vars

\* C2 witness: a cycle with a successful save has just ended, over raw counts
\* that are not all zero.
C2_Witness ==
    /\ pc = "render"
    /\ writeStatus = CY_EM_EEPROM_SUCCESS
    /\ Emitted(uartOut, "EmptyCal")
    /\ sensorEmptyOffset = sensorRaw
    /\ \E i \in Slots : sensorRaw[i] > 0

\* C3: after a successful calibration save the record in the byte store, read
\* as NUMSENSORS baseline values from logical offset 0, holds the baseline of
\* every slot.
C3_WholeRecordPersisted ==
    (writeStatus = CY_EM_EEPROM_SUCCESS) =>
        \A i \in Slots : StoredInt32(eeprom, i) = sensorEmptyOffset[i]

\* C4: unless the firmware has halted, the calibration record in the byte
\* store is after every step either the record it was before (fully old) or
\* the new baseline of all slots (fully new), never a mix.
C4_SaveIsAtomic ==
    [][(pc' # "halted") =>
          \/ StoredRecord(eeprom') = StoredRecord(eeprom)
          \/ StoredRecord(eeprom') = sensorEmptyOffset']_vars

\* C5: a calibration write that reports failure halts the firmware at once,
\* with the failure message as its last output, and from the halt on nothing
\* the firmware owns ever changes (no retry, no cycle, no output).
C5_WriteFailureHalts ==
    /\ []((writeStatus \notin {NoStatus, CY_EM_EEPROM_SUCCESS}) =>
            /\ pc = "halted"
            /\ uartOut # <<>>
            /\ uartOut[Len(uartOut)][1] = MsgWriteError)
    /\ [][(pc = "halted") => UNCHANGED progVars]_vars

\* C5 witness: the firmware has halted on a failed calibration write.
C5_Witness ==
    /\ pc = "halted"
    /\ writeStatus = CY_EM_EEPROM_ERROR
    /\ Emitted(uartOut, MsgWriteError)

\* C6: when the byte store reports failure at start-up the firmware is halted
\* before the first scan is started, before the baseline is taken over and
\* before any level is computed; it never reaches the cycle loop.
C6_StartupFailureHalts ==
    (initStatus \notin {NoStatus, CY_EM_EEPROM_SUCCESS}) =>
        /\ pc = "halted"
        /\ scanBusy = FALSE
        /\ sensorEmptyOffset = ZeroSlots
        /\ sensorRaw = ZeroSlots /\ sensorDiff = ZeroSlots
        /\ sensorProcessed = ZeroSlots
        /\ sensorActiveCount = 0 /\ levelMm = 0 /\ levelPercent = 0
        /\ Emitted(uartOut, MsgInitError)

\* C6 witness: a start-up over a store that holds an earlier calibration has
\* failed and halted.
C6_Witness ==
    /\ pc = "halted"
    /\ initStatus = CY_EM_EEPROM_ERROR
    /\ eeprom # ErasedStore

\* C7: inside the main loop the baseline array changes only in a pass that
\* consumes a calibration request; every other pass, every render, every
\* command intake and every sample step leaves it as it was.
C7_BaselineOnlyBySave ==
    [][((pc \in LoopPositions) /\ (pc' # "boot")
            /\ (sensorEmptyOffset' # sensorEmptyOffset)) =>
          /\ pc = "main"
          /\ scanBusy = FALSE
          /\ cal_flag = TRUE
          /\ cal_flag' = FALSE]_vars

\* C7 witness: a cycle without a save has just ended over raw counts that
\* differ from the baseline an earlier save left.
C7_Witness ==
    /\ pc = "render"
    /\ writeStatus = CY_EM_EEPROM_SUCCESS
    /\ uartOut = <<>>
    /\ scanBusy = TRUE
    /\ sensorRaw # ZeroSlots
    /\ sensorEmptyOffset # ZeroSlots
    /\ sensorEmptyOffset # sensorRaw

\* C8: the command parser never writes at or past the capacity of its line
\* buffer: the buffer index stays inside the buffer and the memory behind
\* the buffer is never written.
C8_LineBufferBounded ==
    /\ bufferIndex < RX_BUFFER_SIZE
    /\ \A j \in (RX_BUFFER_SIZE + 1) .. RxMemLen : rxBuffer[j] = 0

\* receive_uart_cmd() runs, takes a byte from the FIFO and it is a line
\* terminator.
TerminatorStep ==
    /\ pc = "rx"
    /\ pc' = "sample"
    /\ rxFifo # <<>>
    /\ Head(rxFifo) \in {CR, LF}

\* The line accumulated in the buffer so far.
AccumulatedLine == SubSeq(rxBuffer, 1, bufferIndex)

\* C9: on a line terminator the accumulated line has exactly the effect of
\* the command table, compared case-sensitively: cal sets the calibration
\* request; stop, csv and basic set the mode; the empty line sets the store
\* flag and mode NONE; reset sets the reset flag and mode NONE; nothing else
\* of mode, flags and cursor changes.
C9_CommandTable ==
    [][TerminatorStep =>
          /\ (AccumulatedLine = StrCal) =>
                /\ cal_flag' = TRUE
                /\ UNCHANGED <<uartTxMode, storeSampleFlag, resetSampleFlag>>
          /\ (AccumulatedLine = StrStop) =>
                /\ uartTxMode' = UART_NONE
                /\ UNCHANGED <<cal_flag, storeSampleFlag, resetSampleFlag>>
          /\ (AccumulatedLine = StrCsv) =>
                /\ uartTxMode' = UART_CSVINIT
                /\ UNCHANGED <<cal_flag, storeSampleFlag, resetSampleFlag>>
          /\ (AccumulatedLine = StrBasic) =>
                /\ uartTxMode' = UART_BASIC
                /\ UNCHANGED <<cal_flag, storeSampleFlag, resetSampleFlag>>
          /\ (AccumulatedLine = StrEmpty) =>
                /\ storeSampleFlag' = TRUE
                /\ uartTxMode' = UART_NONE
                /\ UNCHANGED <<cal_flag, resetSampleFlag>>
          /\ (AccumulatedLine = StrReset) =>
                /\ resetSampleFlag' = TRUE
                /\ uartTxMode' = UART_NONE
                /\ UNCHANGED <<cal_flag, storeSampleFlag>>
          /\ (AccumulatedLine = StrCalUpper) =>
                UNCHANGED <<cal_flag, uartTxMode, storeSampleFlag, resetSampleFlag>>
          /\ UNCHANGED sampleIndex]_vars

\* C9 witness: a reset line has just been matched.
C9_Witness ==
    /\ pc = "sample"
    /\ resetSampleFlag = TRUE
    /\ uartTxMode = UART_NONE
    /\ bufferIndex = 0

CommandLines == {StrCal, StrStop, StrCsv, StrBasic, StrEmpty, StrReset}

\* C10: an input line that is not exactly one of the six commands yields the
\* error notice and changes neither mode, flags, cursor nor baseline, and
\* does not halt.
C10_OtherLinesRejected ==
    [][(TerminatorStep /\ (rxLine \notin CommandLines)) =>
          /\ Emitted(uartOut', "Command Error")
          /\ UNCHANGED <<uartTxMode, cal_flag, storeSampleFlag, resetSampleFlag,
                         sampleIndex, sensorEmptyOffset>>
          /\ pc' # "halted"]_vars

\* C11: after the bytes "csv" CR LF have been fed, the render cycle that
\* follows the CR emits the CSV header row, and every render cycle after the
\* LF has been taken emits one CSV data row and no header.
C11_CsvCrLfStartsRows ==
    ((pc = "rx") /\ (rxTyped = StrCsvCrLf)) =>
        /\ (rxFifo = <<LF>>) => (uartOut = << <<"CsvHeader", 0>> >>)
        /\ (rxFifo = <<>>) => (uartOut = << <<"CsvRow", 0>> >>)

\* receive_uart_cmd() runs and takes a byte of the line "cal" CR LF.
CalCrLfStep ==
    /\ pc = "rx"
    /\ pc' = "sample"
    /\ rxTyped = StrCalCrLf
    /\ rxFifo # <<>>

\* C12: of the bytes "cal" CR LF exactly one, the CR, sets the calibration
\* request; each of the two terminators leaves the line buffer cleared (index
\* 0, every cell NUL), so whatever follows the CR, and whatever follows the
\* LF, starts from an empty buffer.
C12_CalCrLfSetsFlagOnce ==
    /\ [][CalCrLfStep =>
            /\ (Head(rxFifo) = CR) => (cal_flag' = TRUE)
            /\ (Head(rxFifo) # CR) => (cal_flag' = cal_flag)
            /\ IsTerminator(Head(rxFifo)) =>
                  /\ AccumulatedLine = rxLine
                  /\ bufferIndex' = 0
                  /\ rxBuffer' = ZeroMem]_vars
    /\ [](((rxTyped = StrCalCrLf) /\ (rxFifo \in {<<LF>>, <<>>})) =>
            /\ bufferIndex = 0
            /\ rxBuffer = ZeroMem)

\* C12 witness: the LF of "cal" CR LF has just been taken, the request set by
\* the CR is still pending and the buffer is clear.
C12_Witness ==
    /\ pc = "sample"
    /\ rxTyped = StrCalCrLf
    /\ rxFifo = <<>>
    /\ cal_flag = TRUE
    /\ bufferIndex = 0
    /\ rxBuffer = ZeroMem

\* The periodic part of display_cur_liquid_level() runs.
RenderStep == (pc = "render") /\ (pc' = "rx")

\* C13: a render in mode CSVINIT emits the header and switches to CSV; a
\* render in mode CSV emits a data row, no header, and stays in CSV; CSV is
\* entered only by that render, CSVINIT only by the csv command, and a header
\* is emitted by nothing but a render in CSVINIT (once per csv command).
C13_CsvSession ==
    /\ [][(RenderStep /\ uartTxMode = UART_CSVINIT) =>
            /\ uartOut' = << <<"CsvHeader", 0>> >>
            /\ uartTxMode' = UART_CSV]_vars
    /\ [][(RenderStep /\ uartTxMode = UART_CSV) =>
            /\ uartOut' = << <<"CsvRow", 0>> >>
            /\ uartTxMode' = UART_CSV]_vars
    /\ [][((uartTxMode' = UART_CSV) /\ (uartTxMode # UART_CSV)) =>
            (RenderStep /\ uartTxMode = UART_CSVINIT)]_vars
    /\ [][((uartTxMode' = UART_CSVINIT) /\ (uartTxMode # UART_CSVINIT)) =>
            (TerminatorStep /\ AccumulatedLine = StrCsv)]_vars
    /\ [][((pc' # pc) /\ Emitted(uartOut', "CsvHeader")) =>
            (RenderStep /\ uartTxMode = UART_CSVINIT)]_vars
    /\ [][((pc' # pc) /\ Emitted(uartOut', "CsvRow")) =>
            (RenderStep /\ uartTxMode = UART_CSV)]_vars

\* C13 witness: a render in mode CSV has just emitted a data row.
C13_Witness ==
    /\ pc = "rx"
    /\ uartTxMode = UART_CSV
    /\ uartOut = << <<"CsvRow", 0>> >>

\* display_next_level_val() runs.
SampleStep == (pc = "sample") /\ (pc' = "main")

\* C14: the cursor is always in 0 .. NUM_SAMPLES-1; a stored sample advances
\* it by one, except at the last slot, where it stays (so 20 empty lines from
\* cursor 0 leave it at 19).
C14_CursorSaturates ==
    /\ [](sampleIndex \in 0 .. (NUM_SAMPLES - 1))
    /\ [][(SampleStep /\ storeSampleFlag /\ ~resetSampleFlag) =>
            sampleIndex' = IF sampleIndex < NUM_SAMPLES - 1
                           THEN sampleIndex + 1
                           ELSE NUM_SAMPLES - 1]_vars
    /\ [][(sampleIndex' # sampleIndex) =>
            \/ pc' = "boot"
            \/ SampleStep /\ (storeSampleFlag \/ resetSampleFlag)]_vars

\* C14 witness: a sample has just been stored at the last slot (its row
\* carries the label of slot 19) and the cursor is still 19.
C14_Witness ==
    /\ pc = "main"
    /\ sampleIndex = NUM_SAMPLES - 1
    /\ \E k \in 1 .. Len(uartOut) :
          uartOut[k] = <<"SampleRow", arrayAxisLabel[NUM_SAMPLES - 1]>>

\* Number of tokens of one kind in an output.
CountEmitted(out, kind) == Cardinality({k \in 1 .. Len(out) : out[k][1] = kind})

\* C15: with the reset flag set, display_next_level_val() sets the cursor to
\* 0, emits the "Reset Test Level" notice once and clears both one-shot
\* flags, whatever the cursor was.
C15_ResetRestartsSequence ==
    [][(SampleStep /\ resetSampleFlag) =>
          /\ sampleIndex' = 0
          /\ CountEmitted(uartOut', "Reset Test Level") = 1
          /\ storeSampleFlag' = FALSE
          /\ resetSampleFlag' = FALSE]_vars

\* C15 witness: a reset has just been served: the notice is out, the cursor
\* is 0 and both flags are clear.
C15_Witness ==
    /\ pc = "main"
    /\ Emitted(uartOut, "Reset Test Level")
    /\ sampleIndex = 0
    /\ storeSampleFlag = FALSE
    /\ resetSampleFlag = FALSE
    /\ rxTyped = Append(StrReset, CR)

\* The slots a vector of processed values puts under liquid.
SubmergedSlots(proc) == {i \in Slots : proc[i] > (sensorLimits[i] \div 2)}

\* Sum of the weights of a set of slots: 2 each, 1 for slot 0 and slot N-1.
WeightOf(S) == 2 * Cardinality(S) - Cardinality(S \cap {0, NUMSENSORS - 1})

\* C16: after every completed pipeline cycle processed[i] = (diff[i] *
\* scale[i]) >> 8 and activeCount is the sum of the weights of exactly the
\* slots with processed[i] > threshold[i]/2, whatever activeCount was before.
C16_CountIsWeightedSum ==
    [][CycleCompletes =>
          /\ \A i \in Slots :
                sensorProcessed'[i] = (sensorDiff'[i] * sensorScale[i]) \div 256
          /\ sensorActiveCount' = WeightOf(SubmergedSlots(sensorProcessed'))]_vars

\* C16 witness: a cycle has just ended with the second sensor under liquid
\* and the first sensor not.
C16_Witness ==
    /\ pc = "render"
    /\ sensorProcessed[0] <= sensorLimits[0] \div 2
    /\ sensorProcessed[1] > sensorLimits[1] \div 2
    /\ sensorActiveCount = WeightOf(SubmergedSlots(sensorProcessed))
    /\ sensorActiveCount \in 2 .. 21

\* C17: in every state 0 <= activeCount <= 2*(N-2) + 2.
C17_CountBounded ==
    (sensorActiveCount >= 0) /\ (sensorActiveCount <= 2 * (NUMSENSORS - 2) + 2)

\* C17 witness: every slot is under liquid and the count is at its bound.
C17_Witness ==
    /\ SubmergedSlots(sensorProcessed) = Slots
    /\ sensorActiveCount = 2 * (NUMSENSORS - 2) + 2

\* C18: heightMm is activeCount * (sensorHeight >> 1), sensorHeight being
\* (maxHeightMm * 256) / (N - 1), replaced by maxHeightMm << 8 when it lies
\* within sensorHeight / 4 of maxHeightMm << 8.
C18_SnapToMax ==
    LET height == (LEVELMM_MAX * 256) \div (NUMSENSORS - 1)
        product == sensorActiveCount * (height \div 2)
        full == LEVELMM_MAX * 256
        gap == IF full >= product THEN full - product ELSE product - full
    IN  levelMm = IF gap < height \div 4 THEN full ELSE product

\* C18 witness: the product fell short of the full height and was rounded
\* up to it.
C18_Witness ==
    /\ pc = "render"
    /\ levelMm = LEVELMM_MAX * 256
    /\ sensorActiveCount * (SENSORHEIGHT \div 2) < LEVELMM_MAX * 256

\* C19: percent = heightMm * 100 / maxHeightMm, computed inside int32 and
\* between 0 and 100.0; a count of 22 gives percent 25600 and heightMm
\* 153 << 8, every smaller count a percent below 25600.
C19_PercentExact ==
    /\ levelMm >= 0
    /\ levelMm * 100 <= 2147483647
    /\ levelPercent = (levelMm * 100) \div LEVELMM_MAX
    /\ (levelPercent >= 0) /\ (levelPercent <= 25600)
    /\ (sensorActiveCount = 22) => ((levelPercent = 25600) /\ (levelMm = 153 * 256))
    /\ (sensorActiveCount < 22) => (levelPercent < 25600)

\* C19 witness: a full reading has been computed and rendered: 100.0 percent
\* at the full height.
C19_Witness ==
    /\ pc = "rx"
    /\ sensorActiveCount = 22
    /\ levelPercent = 25600
    /\ levelMm = 153 * 256

\* receive_uart_cmd() runs and takes a byte that is not a line terminator.
ByteStep ==
    /\ pc = "rx"
    /\ pc' = "sample"
    /\ rxFifo # <<>>
    /\ ~IsTerminator(Head(rxFifo))

\* C20: each byte taken that does not end the line is echoed iff it is
\* greater than '0' and, echoed or not, is appended to the line buffer; when
\* the buffer is full it is not stored and buffer and index stay as they are.
C20_EchoAndAppend ==
    [][ByteStep =>
          /\ Emitted(uartOut', "Echo") <=> (Head(rxFifo) > CharZero)
          /\ IF bufferIndex < RX_BUFFER_SIZE
             THEN /\ bufferIndex' = bufferIndex + 1
                  /\ rxBuffer'[bufferIndex + 1] = Head(rxFifo)
             ELSE /\ bufferIndex' = bufferIndex
                  /\ rxBuffer' = rxBuffer]_vars

\* The characters of a text after its decimal point (none without a point).
FractionOf(text) ==
    IF \E k \in 1 .. Len(text) : text[k] = CharPoint
    THEN SubSeq(text, 1 + (CHOOSE k \in 1 .. Len(text) : text[k] = CharPoint), Len(text))
    ELSE <<>>

RECURSIVE FractionDigits(_, _)
\* The first n decimal digits of m / 256, i.e. of (m * 10^n) >> 8 written
\* with n digits (long division, m < 256).
FractionDigits(m, n) ==
    IF n = 0 THEN <<>>
    ELSE <<48 + ((m * 10) \div 256)>> \o FractionDigits((m * 10) % 256, n - 1)

\* C21: display_decimal_fixed_val(v, 8, n) sends after the point exactly n
\* digits (9 for n > 9), those of ((v & 0xFF) * 10^n) >> 8, and a shift
\* above 31 gives what shift 31 gives.
C21_FractionDigits ==
    ((printArgs # <<>>) /\ (printArgs[1] = "display_decimal_fixed_val")) =>
        LET v == printArgs[2]
            shift == printArgs[3]
            n == IF printArgs[4] > 9 THEN 9 ELSE printArgs[4]
        IN  /\ (shift = 8) => (FractionOf(uartText[1]) = FractionDigits(v % 256, n))
            /\ (shift > 31) => (uartText[1] \in DecimalFixedValTexts(v, 31, printArgs[4]))

RECURSIVE DigitsOf(_)
\* The decimal digits of a natural number, most significant first.
DigitsOf(n) == IF n < 10 THEN <<48 + n>> ELSE Append(DigitsOf(n \div 10), 48 + (n % 10))

\* The decimal digits of the absolute value of an int32.
AbsDigits(v) ==
    IF v = INT32_MIN THEN <<50, 49, 52, 55, 52, 56, 51, 54, 52, 56>>
    ELSE DigitsOf(IF v < 0 THEN -v ELSE v)

\* digits, with zeros in front up to a length of at least k.
ZeroPadded(digits, k) ==
    IF Len(digits) >= k THEN digits
    ELSE [j \in 1 .. (k - Len(digits)) |-> 48] \o digits

\* C22: display_decimal_val(value, minLeadingZeros) sends a minus sign iff
\* the value is negative, then the digits of its absolute value without
\* leading zeros, but at least minLeadingZeros digits (at most the 10 an
\* int32 has) and at least one digit.
C22_RenderDecimal ==
    ((printArgs # <<>>) /\ (printArgs[1] = "display_decimal_val")) =>
        LET v == printArgs[2]
            k == IF printArgs[3] > 10 THEN 10 ELSE printArgs[3]
        IN  uartText[1] = (IF v < 0 THEN <<CharMinus>> ELSE <<>>)
                              \o ZeroPadded(AbsDigits(v), k)

C24_SaveLoadRoundTrip ==
    [][((pc = "boot") /\ (pc' = "main") /\ (savedOffsets # <<>>)) =>
          \A i \in Slots : sensorEmptyOffset'[i] = savedOffsets[i]]_vars

\* A pass of the main loop that calls store_calibration().
SaveStep == (pc = "main") /\ (pc' \in {"render", "halted"}) /\ Emitted(uartOut', "EmptyCal")

C26_RenderOnlyAfterScan ==
    [][((pc = "main") /\ (pc' = "render")) => (scanBusy = FALSE)]_vars

\* C27: raw counts change only in a pass of the main loop that found the
\* scan complete, and that pass has started the next scan when it ends; a
\* scan is started only at start-up or by such a pass; the raw counts held
\* are always those of one scan.
C27_ReadThenScan ==
    /\ [][(sensorRaw' # sensorRaw) =>
            ((pc = "main") /\ (scanBusy = FALSE) /\ (scanBusy' = TRUE))]_vars
    /\ [][((scanBusy = FALSE) /\ (scanBusy' = TRUE)) =>
            ((pc = "boot") \/ ((pc = "main") /\ (pc' = "render")))]_vars
    /\ [](sensorRaw \in (LevelRaw \cup {ZeroSlots}))

\* The scan started by a pass that read non-zero raw counts has completed
\* and the next pass has not begun.
C27_Witness ==
    /\ pc = "main"
    /\ scanBusy = FALSE
    /\ sensorRaw # ZeroSlots
    /\ sensorDiff = sensorRaw

\* C28: a terminator read on an empty line sets the store request, which is
\* pending only until display_next_level_val() of the same pass; that call
\* emits exactly one sample row, labelled arrayAxisLabel[cursor] with the
\* cursor as it was, preceded by the sample header iff that cursor is 0,
\* and leaves mode NONE; a sample row is emitted by nothing else.
C28_EmptyLineSamples ==
    /\ [][(TerminatorStep /\ (AccumulatedLine = <<>>)) =>
            (storeSampleFlag' = TRUE)]_vars
    /\ []((storeSampleFlag = TRUE) => ((pc = "sample") /\ (resetSampleFlag = FALSE)))
    /\ [][(SampleStep /\ (storeSampleFlag = TRUE)) =>
            /\ uartOut' = (IF sampleIndex = 0 THEN << <<"SampleHeader", 0>> >> ELSE <<>>)
                              \o << <<"SampleRow", arrayAxisLabel[sampleIndex]>> >>
            /\ uartTxMode' = UART_NONE
            /\ storeSampleFlag' = FALSE]_vars
    /\ [][((uartOut' # uartOut) /\ (Emitted(uartOut', "SampleRow")
                                      \/ Emitted(uartOut', "SampleHeader"))) =>
            (SampleStep /\ (storeSampleFlag = TRUE))]_vars

\* The second empty line since start-up has been served: one row, labelled
\* with the second axis value, without a header.
C28_Witness ==
    /\ pc = "main"
    /\ rxTyped \in {<<CR>>, <<LF>>}
    /\ rxFifo = <<>>
    /\ uartOut = << <<"SampleRow", arrayAxisLabel[1]>> >>
    /\ sampleIndex = 2
    /\ uartTxMode = UART_NONE

\* C29: for every percent and height the pipeline produces, the BASIC line
\* and the CSV or sample row print the same text, whole part and one
\* fractional digit.
C29_BasicEqualsCsv ==
    /\ BasicLevelText(levelPercent, levelMm) = FixedLevelText(levelPercent, levelMm)
    /\ \A k \in 1 .. 2 : Len(FractionOf(FixedLevelText(levelPercent, levelMm)[k])) = 1

\* A pass of the main loop that finds the scan complete and a calibration
\* requested.
CalCycle == (pc = "main") /\ (scanBusy = FALSE) /\ (cal_flag = TRUE) /\ (pc' # "main")

\* C30: a calibration save makes the baseline of every slot the raw count
\* read in that pass, whatever the baseline was; a pass that completes ends
\* with every diff 0, activeCount 0 and level 0; a save repeated on the same
\* raw counts leaves the baseline as it is.
C30_SaveSetsBaselineToRaw ==
    /\ [][CalCycle => (\A i \in Slots : sensorEmptyOffset'[i] = sensorRaw'[i])]_vars
    /\ [][(CalCycle /\ (pc' = "render")) =>
            /\ sensorDiff' = ZeroSlots
            /\ sensorActiveCount' = 0
            /\ levelMm' = 0
            /\ levelPercent' = 0]_vars
    /\ [][(CalCycle /\ (sensorEmptyOffset = sensorRaw) /\ (sensorRaw' = sensorRaw)) =>
            (sensorEmptyOffset' = sensorEmptyOffset)]_vars

\* A save over non-zero raw counts has ended its pass with a level of zero.
C30_Witness ==
    /\ pc = "render"
    /\ Emitted(uartOut, "EmptyCal")
    /\ savedOffsets = sensorRaw
    /\ sensorRaw # ZeroSlots
    /\ sensorDiff = ZeroSlots
    /\ sensorActiveCount = 0
    /\ levelMm = 0

\* C31: whenever display_cur_liquid_level() has returned, both one-shot
\* flags are FALSE, whatever byte the pass received: a flag is set only
\* between receive_uart_cmd() and display_next_level_val() of one pass, the
\* two are never set together, and display_next_level_val() leaves both
\* FALSE.
C31_OneShotFlags ==
    /\ []((pc # "sample") => ((storeSampleFlag = FALSE) /\ (resetSampleFlag = FALSE)))
    /\ [](~((storeSampleFlag = TRUE) /\ (resetSampleFlag = TRUE)))
    /\ [][SampleStep => ((storeSampleFlag' = FALSE) /\ (resetSampleFlag' = FALSE))]_vars

\* The first empty line since start-up has been served and the pass has
\* ended with both flags clear.
C31_Witness ==
    /\ pc = "main"
    /\ Emitted(uartOut, "SampleHeader")
    /\ sampleIndex = 1
    /\ storeSampleFlag = FALSE
    /\ resetSampleFlag = FALSE

\* The periodic lines of display_cur_liquid_level().
RenderKinds == {"Basic", "CsvHeader", "CsvRow"}

\* C32: in every mode, NONE included, the render is followed by the command
\* intake and that by the sample sequence; the intake takes one byte when
\* input is pending and none otherwise, and nothing else takes input; the
\* pass that reads a terminator sets the mode of its command and prints no
\* periodic line itself, and every render prints the line of the mode it
\* finds.
C32_OneBytePerCycle ==
    /\ [][((pc = "render") /\ (pc' # pc)) => (pc' = "rx")]_vars
    /\ [][((pc = "rx") /\ (pc' # pc)) => (pc' = "sample")]_vars
    /\ [][((pc = "sample") /\ (pc' # pc)) => (pc' = "main")]_vars
    /\ [][((pc = "rx") /\ (pc' = "sample")) =>
            (rxFifo' = IF rxFifo = <<>> THEN <<>> ELSE Tail(rxFifo))]_vars
    /\ [][(Len(rxFifo') < Len(rxFifo)) => ((pc = "rx") /\ (pc' = "sample"))]_vars
    /\ [][TerminatorStep =>
            /\ \A kind \in RenderKinds : ~Emitted(uartOut', kind)
            /\ (AccumulatedLine = StrStop) => (uartTxMode' = UART_NONE)
            /\ (AccumulatedLine = StrCsv) => (uartTxMode' = UART_CSVINIT)
            /\ (AccumulatedLine = StrBasic) => (uartTxMode' = UART_BASIC)]_vars
    /\ [][RenderStep => (uartOut' = RenderOutput(uartTxMode))]_vars

\* In mode NONE the intake has taken the first byte of a `csv` line and the
\* other three are still pending.
C32_Witness ==
    /\ pc = "sample"
    /\ uartTxMode = UART_NONE
    /\ rxTyped = Append(StrCsv, CR)
    /\ rxLine = <<99>>
    /\ Len(rxFifo) = 3

=============================================================================
